---- MODULE Spec2Model ----
(***************************************************************************)
(* tusker: the ephemeral-database lifecycle, backend materialization,      *)
(* diff/check orchestration, orphan cleaning and the command line of       *)
(* src/tusker/__init__.py, with the configuration loader of                *)
(* src/tusker/config.py.                                                   *)
(*                                                                         *)
(* One PostgreSQL server is modelled by its catalog (database name ->      *)
(* shared description) and the structural content of every database.       *)
(* Every statement sent over the administrative connection is one step.    *)
(***************************************************************************)
EXTENDS Integers, Sequences, FiniteSets, TLC

\* ---------------------------------------------------------------- bounds
\* time.time() is read as a second in 0..MaxNow
MaxNow == 1
\* files in the directory the filename patterns are matched against
MaxFiles == 2
\* patterns in one filename list of the configuration
MaxPatterns == 2
\* names in the list handed to Tusker.check by a direct caller
MaxBackends == 3
\* positional arguments on the command line
MaxArgs == 2

\* ------------------------------------------------------------- constants
\* (the two backquotes of the source are written as quotes: the lexer has no backquote)
TUSKER_COMMENT == "CREATED BY TUSKER - If this table is left behind tusker probably crashed and was not able to clean up after itself. Either try running 'tusker clean' or remove this database manually."

\* a description that resembles the marker without being equal to it
SimilarComment == "CREATED BY TUSKER"

BACKEND_CHOICES == <<"migrations", "schema", "database">>

Choices == {BACKEND_CHOICES[i] : i \in 1..Len(BACKEND_CHOICES)}

\* config.database.args()['dbname'] with the defaults of Config
BaseName == "tusker"

\* a database of the server that tusker did not create
OtherName == "reports"

Absent == "<absent>"
NoDescription == "<null>"
None == "None"

\* '{}_{}_{}'.format(dbname, now, suffix)
DbName(t, suffix) == BaseName \o "_" \o ToString(t) \o "_" \o suffix

Suffixes == {"schema", "migrations"}

EphemeralNames == {DbName(t, s) : t \in 0..MaxNow, s \in Suffixes}

DbNames == {BaseName, OtherName} \cup EphemeralNames

\* ------------------------------------------------------------ exceptions
NoExc == <<"none", "">>
Exc(kind, detail) == <<kind, detail>>

\* ------------------------------------------------------------ SQL files
\* the texts a SQL file may hold
FileTexts == {"", " \n", " CREATE a\n", "SELECT 1/0"}

\* str.strip()
Strip(text) ==
    CASE text = " \n" -> ""
      [] text = " CREATE a\n" -> "CREATE a"
      [] OTHER -> text

\* the structural objects a statement batch creates once the server ran it
\* (the driver turns every escaped '%%' back into '%' before sending)
Creates(sql) == IF sql = "CREATE a" THEN {"a"} ELSE {}

\* whether the server rejects the batch (sqlalchemy.exc.SQLAlchemyError)
ServerRejects(sql) == sql = "SELECT 1/0"

Objects == {"a"}

\* execute_sql_file(cursor, filename): the transaction's pending content
\* after the file, or the ExecuteSqlError it raises
execute_sql_file(text, pending) ==
    LET sql == Strip(text) IN
    IF sql = "" THEN [raised |-> FALSE, executed |-> FALSE, pending |-> pending]
    ELSE IF ServerRejects(sql) THEN [raised |-> TRUE, executed |-> TRUE, pending |-> pending]
    ELSE [raised |-> FALSE, executed |-> TRUE, pending |-> pending \cup Creates(sql)]

\* ----------------------------------------------------------- diff engine
\* migra.Migration(source, target).sql after add_all_changes: the
\* statements that turn source into target
EmptySql == [create |-> {}, drop |-> {}]
MigrationSql(source, target) == [create |-> target \ source, drop |-> source \ target]

\* ----------------------------------------------------------- namespaces
DiffNamespace(source, target, reverse) ==
    [command |-> "diff", verbose |-> FALSE, config |-> "tusker.toml",
     source |-> source, target |-> target, reverse |-> reverse,
     create_extensions_only |-> FALSE, safe |-> None, privileges |-> None,
     func |-> "cmd_diff"]

CheckNamespace(backends) ==
    [command |-> "check", verbose |-> FALSE, config |-> "tusker.toml",
     backends |-> backends, safe |-> None, privileges |-> None,
     func |-> "cmd_check"]

CleanNamespace ==
    [command |-> "clean", verbose |-> FALSE, config |-> "tusker.toml",
     func |-> "cmd_clean"]

NoArgs == [command |-> "none", func |-> "none"]

\* hasattr(args, name)
HasAttr(ns, name) == name \in DOMAIN ns

SeqsUpTo(S, lo, hi) == UNION {[1..n -> S] : n \in lo..hi}

Contains(seq, x) == \E i \in 1..Len(seq) : seq[i] = x

\* ValidateBackends.__call__: the value stored, or a usage error
ValidateBackends(values) ==
    IF Contains(values, "all")
    THEN [error |-> FALSE, msg |-> "", values |-> BACKEND_CHOICES]
    ELSE IF Len(values) <= 1
    THEN [error |-> TRUE, msg |-> "at least two backends are required", values |-> values]
    ELSE IF \E i \in 1..Len(values) : values[i] \notin Choices
    THEN [error |-> TRUE, msg |-> "invalid choice", values |-> values]
    ELSE [error |-> FALSE, msg |-> "", values |-> values]

\* the values of check's positional 'backends' (nargs='*', with its default)
GivenBackends(av) == IF av.positionals = <<>> THEN <<"migrations", "schema">> ELSE av.positionals

\* parser.parse_args(): the namespace, or a usage error
ParseArgs(av) ==
    CASE av.command = "diff" ->
           IF \E i \in 1..Len(av.positionals) : i <= 2 /\ av.positionals[i] \notin Choices
           THEN [error |-> TRUE, msg |-> "invalid choice", ns |-> NoArgs]
           ELSE IF Len(av.positionals) > 2
           THEN [error |-> TRUE, msg |-> "unrecognized arguments", ns |-> NoArgs]
           ELSE [error |-> FALSE, msg |-> "",
                 ns |-> DiffNamespace(
                     IF Len(av.positionals) >= 1 THEN av.positionals[1] ELSE "migrations",
                     IF Len(av.positionals) >= 2 THEN av.positionals[2] ELSE "schema",
                     av.reverse)]
      [] av.command = "check" ->
           LET v == ValidateBackends(GivenBackends(av))
           IN IF v.error THEN [error |-> TRUE, msg |-> v.msg, ns |-> NoArgs]
              ELSE IF av.reverse
              THEN [error |-> TRUE, msg |-> "unrecognized arguments", ns |-> NoArgs]
              ELSE [error |-> FALSE, msg |-> "", ns |-> CheckNamespace(v.values)]
      [] OTHER ->
           IF av.positionals # <<>> \/ av.reverse
           THEN [error |-> TRUE, msg |-> "unrecognized arguments", ns |-> NoArgs]
           ELSE [error |-> FALSE, msg |-> "", ns |-> CleanNamespace]

\* ConfigError.invalid(name, reason), a classmethod of two parameters, called
\* with the positional arguments given
ConfigErrorInvalid(given) ==
    IF Len(given) = 2
    THEN Exc("ConfigError", "Invalid configuration: " \o given[1] \o ", " \o given[2])
    ELSE Exc("TypeError", "invalid() missing 1 required positional argument: 'reason'")

\* MigrationsConfig.__init__: the exception it raises, NoExc when it returns
MigrationsConfig(table) ==
    IF table.directory /\ table.filename
    THEN ConfigErrorInvalid(<<"migrations directory and filename parameters are mutually exclusive">>)
    ELSE NoExc

\* Config(args.config) raises
MigrationsConfigRaises(table) == MigrationsConfig(table) # NoExc


\* what Tusker.diff and Tusker.check return
NoResult == [kind |-> "unset", names |-> <<>>, sql |-> EmptySql]
ReturnsNone == [kind |-> "None", names |-> <<>>, sql |-> EmptySql]
ReturnsPair(a, b) == [kind |-> "pair", names |-> <<a, b>>, sql |-> EmptySql]
ReturnsSql(sql) == [kind |-> "sql", names |-> <<>>, sql |-> sql]

\* ------------------------------------------------------ file resolution
\* file names as the code points of their characters: a, ab, b
NameA == <<97>>
NameAB == <<97, 98>>
NameB == <<98>>
FileNames == {NameA, NameAB, NameB}

\* a filename pattern: a literal path, or a prefix followed by '*'
Literal(n) == [prefix |-> n, wild |-> FALSE]
Wildcard(n) == [prefix |-> n, wild |-> TRUE]
Patterns == {Wildcard(<<>>), Wildcard(NameA), Wildcard(NameB), Literal(NameA)}

\* whether glob's pattern matches the path
Matches(p, n) ==
    IF p.wild
    THEN Len(n) >= Len(p.prefix) /\ SubSeq(n, 1, Len(p.prefix)) = p.prefix
    ELSE n = p.prefix

\* str < str: by code point, a proper prefix first
RECURSIVE LexLess(_, _)
LexLess(x, y) ==
    IF x = <<>> THEN y # <<>>
    ELSE IF y = <<>> THEN FALSE
    ELSE IF Head(x) # Head(y) THEN Head(x) < Head(y)
    ELSE LexLess(Tail(x), Tail(y))

\* a directory: its files in the order the filesystem lists them, no name twice
Directories ==
    {d \in SeqsUpTo([name : FileNames, text : FileTexts], 0, MaxFiles) :
        \A i, j \in 1..Len(d) : d[i].name = d[j].name => i = j}

\* glob(pattern, recursive=True): the matching paths in listing order
glob(p, dir) ==
    LET hit == SelectSeq(dir, LAMBDA f : Matches(p, f.name))
    IN [n \in 1..Len(hit) |-> hit[n].name]

\* the matches are used in the order glob returned them
ListingOrder(seq) == seq

\* sorted(...)
sorted(seq) == SortSeq(seq, LexLess)

\* _get_schema_files, _get_migration_files: for pattern in filename:
\* yield from sorted(glob(pattern, recursive=True))
RECURSIVE GetFiles(_, _)
GetFiles(patterns, dir) ==
    IF patterns = <<>> THEN <<>>
    ELSE sorted(glob(Head(patterns), dir)) \o GetFiles(Tail(patterns), dir)

\* open(filename).read()
Read(dir, n) == dir[CHOOSE i \in 1..Len(dir) : dir[i].name = n].text

\* ---------------------------------------------------------------- state
VARIABLES
    entry,      \* "main": main() runs on a command line; "direct": a caller runs cmd_*
    argv,       \* the command line main() has still to parse
    toml,       \* the [migrations] table of the configuration file still to load
    args,       \* the argparse namespace
    pc,         \* the position of the program
    connOpen,   \* Tusker.conn, the administrative connection, is open
    now,        \* the last second time.time() returned
    catalog,    \* pg_database joined with pg_shdescription: name -> description
    catalog0,   \* the catalog when the program started
    content,    \* the structural objects of every database
    mode,       \* the Tusker method running: "diff", "check" or "clean"
    backends,   \* the backend names the method materializes, in order
    stack,      \* the context managers entered and not yet exited, innermost last
    cur,        \* the database createdb has created and not yet wrapped in try
    pending,    \* the content built by the open transaction
    fs,         \* the directory the filename patterns are matched against
    cfg,        \* config.schema.filename and config.migrations.filename
    todo,       \* the resolved file names the open transaction has still to execute
    applied,    \* the files the transaction has executed: name, and whether SQL was sent
    pair,       \* check's loop index i
    rows,       \* clean's fetched rows not yet dropped
    exc,        \* the exception propagating
    result,     \* what the Tusker method returned
    exitcode,   \* the exit status of the process
    trace,      \* the events so far
    handles,    \* the content behind each handle the backends yielded, in order
    ephemeral,  \* databases createdb created that are in the catalog
    tagged      \* databases whose COMMENT ON DATABASE succeeded

vars == <<entry, argv, toml, args, pc, connOpen, now, catalog, catalog0, content,
          mode, backends, stack, cur, pending, fs, cfg, todo, applied, pair, rows, exc,
          result, exitcode, trace, handles, ephemeral, tagged>>

Ev(ev, idx, db, ok, excIn, excOut) ==
    [ev |-> ev, idx |-> idx, db |-> db, ok |-> ok, excIn |-> excIn, excOut |-> excOut]

Log(ev, idx, db, ok) == Ev(ev, idx, db, ok, NoExc, NoExc)

NoArgv == [command |-> "none", positionals |-> <<>>, reverse |-> FALSE]
Loaded == [directory |-> FALSE, filename |-> FALSE]

\* the command lines: a sub-command, its positional arguments, --reverse
Argvs ==
    {[command |-> "diff", positionals |-> p, reverse |-> r] :
        p \in SeqsUpTo(Choices \cup {"tables"}, 0, MaxArgs), r \in BOOLEAN}
    \cup {[command |-> "check", positionals |-> p, reverse |-> FALSE] :
        p \in SeqsUpTo(Choices \cup {"all", "tables"}, 0, MaxArgs)}
    \cup {[command |-> "clean", positionals |-> <<>>, reverse |-> FALSE]}

\* the [migrations] tables: whether directory and filename are set
Tomls == [directory : BOOLEAN, filename : BOOLEAN]

\* the namespaces a direct caller of cmd_diff, cmd_check and cmd_clean passes
DirectCalls ==
    {DiffNamespace(s, t, r) : s \in Choices, t \in Choices, r \in BOOLEAN}
    \cup {CheckNamespace(b) : b \in SeqsUpTo(Choices, 2, MaxBackends)}
    \cup {CleanNamespace}

\* databases an earlier, interrupted run left behind
OrphanSets == {{}, {DbName(0, "schema")}, {DbName(0, "schema"), DbName(0, "migrations")}}

InitialCatalogs ==
    {[d \in DbNames |->
        CASE d = BaseName -> NoDescription
          [] d = OtherName -> other
          [] OTHER -> IF d \in orphans THEN TUSKER_COMMENT ELSE Absent] :
     orphans \in OrphanSets, other \in {NoDescription, SimilarComment}}

\* the filename lists a configuration may hold
FilenameLists == SeqsUpTo(Patterns, 0, MaxPatterns)

Filenames(schema, migrations) == [schema |-> schema, migrations |-> migrations]

\* schema.filename = ['*'], migrations.filename = ['b*']
PlainConfig == Filenames(<<Wildcard(<<>>)>>, <<Wildcard(NameB)>>)

\* the configurations where one of the two lists is any list and the other
\* is empty
Configs ==
    {Filenames(l, <<>>) : l \in FilenameLists}
    \cup {Filenames(<<>>, l) : l \in FilenameLists}

\* one file, a, that creates an object
PlainDirectory == <<[name |-> NameA, text |-> " CREATE a\n"]>>

\* the directories that are empty or hold one file, a or b
SmallDirectories ==
    {<<>>} \cup {<<[name |-> n, text |-> t]>> : n \in {NameA, NameB}, t \in FileTexts}

\* no database but the configured one and another one, both empty
PlainCatalog ==
    [d \in DbNames |-> IF d \in {BaseName, OtherName} THEN NoDescription ELSE Absent]

\* the configurations where one of the two lists is ['*'] and the other is empty
WildcardConfigs == {Filenames(<<Wildcard(<<>>)>>, <<>>), Filenames(<<>>, <<Wildcard(<<>>)>>)}

\* the directories whose files all create the same object
CreatingDirectories ==
    {d \in Directories : \A i \in 1..Len(d) : d[i].text = " CREATE a\n"}

\* the runs explored: every command line on one directory; every direct call
\* on the directories of at most one file; one check on every directory
\* under the configurations of one '*', and on every listing of files that
\* create an object under every configuration
Init ==
    /\ \/ /\ entry = "main"
          /\ argv \in Argvs /\ toml \in Tomls /\ args = NoArgs /\ pc = "main"
          /\ fs = PlainDirectory /\ cfg = PlainConfig
          /\ catalog \in InitialCatalogs
       \/ /\ entry = "direct"
          /\ argv = NoArgv /\ toml = Loaded /\ args \in DirectCalls /\ pc = "cmd"
          /\ fs \in SmallDirectories /\ cfg = PlainConfig
          /\ catalog \in InitialCatalogs
       \/ /\ entry = "direct"
          /\ argv = NoArgv /\ toml = Loaded /\ pc = "cmd"
          /\ args = CheckNamespace(<<"schema", "migrations">>)
          /\ \/ fs \in Directories /\ cfg \in WildcardConfigs
             \/ fs \in CreatingDirectories /\ cfg \in Configs
          /\ catalog = PlainCatalog
    /\ connOpen = FALSE
    /\ now = 0
    /\ catalog0 = catalog
    /\ \E live \in SUBSET Objects :
          content = [d \in DbNames |-> IF d = BaseName THEN live ELSE {}]
    /\ mode = "none"
    /\ backends = <<>>
    /\ stack = <<>>
    /\ cur = ""
    /\ pending = {}
    /\ todo = <<>>
    /\ applied = <<>>
    /\ pair = 0
    /\ rows = {}
    /\ exc = NoExc
    /\ result = NoResult
    /\ exitcode = -1
    /\ trace = <<>>
    /\ handles = <<>>
    /\ ephemeral = {d \in DbNames : catalog[d] = TUSKER_COMMENT}
    /\ tagged = {d \in DbNames : catalog[d] = TUSKER_COMMENT}

\* ------------------------------------------------------------ main()
\* main(): parse_args, the identical-source-and-target test, Config(),
\* the --safe and --with-privileges overrides, then args.func
Main ==
    /\ pc = "main"
    /\ LET parsed == ParseArgs(argv)
           ns == parsed.ns
       IN /\ argv' = NoArgv
          /\ toml' = Loaded
          /\ IF parsed.error
             THEN args' = args /\ exc' = Exc("UsageError", parsed.msg)
                  /\ exitcode' = 2 /\ pc' = "done"
             ELSE IF HasAttr(ns, "from") /\ HasAttr(ns, "target") /\ ns.source = ns.target
             THEN args' = ns /\ exc' = Exc("UsageError", "identical")
                  /\ exitcode' = 2 /\ pc' = "done"
             ELSE IF MigrationsConfigRaises(toml)
             THEN args' = ns /\ exc' = MigrationsConfig(toml)
                  /\ exitcode' = 1 /\ pc' = "done"
             ELSE IF ~HasAttr(ns, "safe") \/ ~HasAttr(ns, "privileges")
             THEN args' = ns /\ exc' = Exc("AttributeError", "safe")
                  /\ exitcode' = 1 /\ pc' = "done"
             ELSE args' = ns /\ exc' = exc /\ exitcode' = exitcode /\ pc' = "cmd"
    /\ UNCHANGED <<entry, connOpen, now, catalog, catalog0, content, mode, backends,
                   stack, cur, pending, fs, cfg, todo, applied, pair, rows, result,
                   trace, handles, ephemeral, tagged>>

\* Tusker.__init__: open the administrative connection
Connect(m, names) ==
    /\ connOpen' = TRUE
    /\ mode' = m
    /\ backends' = names
    /\ trace' = Append(trace, Log("connect", 0, "template1", TRUE))

\* the managers are entered lazily: diffing starts once two are open
EnteredEarly(names, n) == IF n >= 2 THEN "diffing" ELSE "mgr"

\* the list Tusker.diff or Tusker.check has entered all its managers
Entered(names, n) == IF n >= Len(names) THEN (IF Len(names) >= 2 THEN "diffing" ELSE "unwind") ELSE "mgr"

\* cmd_diff up to the call of Tusker.diff
CmdDiff ==
    /\ pc = "cmd" /\ args.func = "cmd_diff"
    /\ Connect("diff", IF args.reverse THEN <<args.target, args.source>>
                       ELSE <<args.source, args.target>>)
    /\ pc' = "mgr"
    /\ pair' = 1
    /\ UNCHANGED <<entry, argv, toml, args, now, catalog, catalog0, content, stack, cur,
                   pending, fs, cfg, todo, applied, rows, exc, result, exitcode, handles,
                   ephemeral, tagged>>

\* cmd_check up to the call of Tusker.check
CmdCheck ==
    /\ pc = "cmd" /\ args.func = "cmd_check"
    /\ Connect("check", IF Contains(args.backends, "all")
                        THEN <<"migrations", "schema", "database">>
                        ELSE args.backends)
    /\ pc' = "mgr"
    /\ pair' = 1
    /\ UNCHANGED <<entry, argv, toml, args, now, catalog, catalog0, content, stack, cur,
                   pending, fs, cfg, todo, applied, rows, exc, result, exitcode, handles,
                   ephemeral, tagged>>

\* cmd_clean up to the call of Tusker.clean
CmdClean ==
    /\ pc = "cmd" /\ args.func = "cmd_clean"
    /\ Connect("clean", <<>>)
    /\ pc' = "select"
    /\ UNCHANGED <<entry, argv, toml, args, now, catalog, catalog0, content, stack, cur,
                   pending, fs, cfg, todo, applied, pair, rows, exc, result, exitcode,
                   handles, ephemeral, tagged>>


\* ------------------------------------------------- Tusker.createdb, mgr_*
Frame(idx, name, db, eph, yielded) ==
    [idx |-> idx, name |-> name, db |-> db, eph |-> eph, yielded |-> yielded]

\* createdb: read the clock, build the name, CREATE DATABASE
CreateDb ==
    /\ pc = "mgr"
    /\ LET k == Len(stack) + 1
           name == backends[k]
       IN /\ name \in Suffixes
          /\ \E t \in now..MaxNow :
               LET d == DbName(t, name) IN
               /\ now' = t
               /\ IF catalog[d] # Absent
                  THEN /\ exc' = Exc("DuplicateDatabase", d)
                       /\ pc' = "unwind"
                       /\ trace' = Append(trace, Log("CREATE", k, d, FALSE))
                       /\ UNCHANGED <<catalog, ephemeral, cur>>
                  ELSE /\ catalog' = [catalog EXCEPT ![d] = NoDescription]
                       /\ ephemeral' = ephemeral \cup {d}
                       /\ cur' = d
                       /\ pc' = "comment"
                       /\ trace' = Append(trace, Log("CREATE", k, d, TRUE))
                       /\ exc' = exc
    /\ UNCHANGED <<entry, argv, toml, args, connOpen, catalog0, content, mode, backends,
                   stack, pending, fs, cfg, todo, applied, pair, rows, result, exitcode,
                   handles, tagged>>

\* the description written is not the marker clean() looks for
CommentWithOtherText(cat, d) == [cat EXCEPT ![d] = SimilarComment]

\* COMMENT ON DATABASE d IS TUSKER_COMMENT
CommentOnDatabase(cat, d) == [cat EXCEPT ![d] = TUSKER_COMMENT]

\* createdb: tag the database, enter try, create the engine; mgr_*: begin
Comment ==
    /\ pc = "comment"
    /\ catalog' = CommentOnDatabase(catalog, cur)
    /\ tagged' = tagged \cup {cur}
    /\ stack' = Append(stack, Frame(Len(stack) + 1, backends[Len(stack) + 1], cur, TRUE, FALSE))
    /\ cur' = ""
    /\ pending' = {}
    /\ todo' = GetFiles(cfg[backends[Len(stack) + 1]], fs)
    /\ applied' = <<>>
    /\ pc' = "files"
    /\ trace' = Append(trace, Log("COMMENT", Len(stack) + 1, cur, TRUE))
    /\ UNCHANGED <<entry, argv, toml, args, connOpen, now, catalog0, content, mode,
                   backends, fs, cfg, pair, rows, exc, result, exitcode, handles,
                   ephemeral>>

\* the server fails COMMENT ON DATABASE: createdb raises before its try
CommentFails ==
    /\ pc = "comment"
    /\ exc' = Exc("CommentError", cur)
    /\ cur' = ""
    /\ pc' = "unwind"
    /\ trace' = Append(trace, Log("COMMENT", Len(stack) + 1, cur, FALSE))
    /\ UNCHANGED <<entry, argv, toml, args, connOpen, now, catalog, catalog0, content,
                   mode, backends, stack, pending, fs, cfg, todo, applied, pair, rows,
                   result, exitcode, handles, ephemeral, tagged>>

\* execute_sql_file re-raises the driver's error unwrapped
RaiseDriverError(db) == Exc("SQLAlchemyError", db)

\* raise ExecuteSqlError('Error executing SQL file ...')
WrapError(db) == Exc("ExecuteSqlError", db)

\* mgr_schema, mgr_migrations: the loop body, one resolved file
ExecFile ==
    /\ pc = "files"
    /\ todo # <<>>
    /\ LET r == execute_sql_file(Read(fs, Head(todo)), pending)
           f == stack[Len(stack)]
       IN IF r.raised
          THEN /\ pending' = {}
               /\ exc' = WrapError(f.db)
               /\ pc' = "unwind"
               /\ trace' = Append(trace, Log("sqlerror", f.idx, f.db, FALSE))
               /\ UNCHANGED <<todo, applied>>
          ELSE /\ pending' = r.pending
               /\ todo' = Tail(todo)
               /\ applied' = Append(applied, [name |-> Head(todo), executed |-> r.executed])
               /\ UNCHANGED <<exc, pc, trace>>
    /\ UNCHANGED <<entry, argv, toml, args, connOpen, now, catalog, catalog0, content,
                   mode, backends, stack, cur, fs, cfg, pair, rows, result, exitcode,
                   handles, ephemeral, tagged>>

\* the for loop over the generator ends: no resolved file is left
Exhausted(files) == files = <<>>

\* mgr_schema, mgr_migrations: the files are exhausted, the transaction
\* commits and the engine is yielded
MgrYield ==
    /\ pc = "files"
    /\ Exhausted(todo)
    /\ LET f == stack[Len(stack)] IN
       /\ content' = [content EXCEPT ![f.db] = pending]
       /\ stack' = [stack EXCEPT ![Len(stack)].yielded = TRUE]
       /\ handles' = Append(handles, pending)
       /\ trace' = Append(trace, Log("enter", f.idx, f.db, TRUE))
    /\ pc' = Entered(backends, Len(stack))
    /\ UNCHANGED <<entry, argv, toml, args, connOpen, now, catalog, catalog0, mode,
                   backends, cur, pending, fs, cfg, todo, applied, pair, rows, exc,
                   result, exitcode, ephemeral, tagged>>

\* the configured database is treated as one more createdb database
DatabaseFrameEphemeral(idx) == Frame(idx, "database", BaseName, TRUE, TRUE)

\* mgr_database: with self.createengine() as engine: yield engine, on the
\* configured database and outside createdb
DatabaseFrame(idx) == Frame(idx, "database", BaseName, FALSE, TRUE)

\* mgr_database: an engine on the configured database, yielded
MgrDatabase ==
    /\ pc = "mgr"
    /\ backends[Len(stack) + 1] = "database"
    /\ stack' = Append(stack, DatabaseFrame(Len(stack) + 1))
    /\ handles' = Append(handles, content[BaseName])
    /\ trace' = Append(trace, Log("enter", Len(stack) + 1, BaseName, TRUE))
    /\ pc' = Entered(backends, Len(stack) + 1)
    /\ UNCHANGED <<entry, argv, toml, args, connOpen, now, catalog, catalog0, content,
                   mode, backends, cur, pending, fs, cfg, todo, applied, pair, rows, exc,
                   result, exitcode, ephemeral, tagged>>

\* ------------------------------------------------ Tusker.diff, Tusker.check
\* managers[i+1], the target of pair i
PairTarget(i) == i + 1

\* only the statements that create something count as a difference
TruthyCreatesOnly(sql) == sql.create # {}

\* if migration.sql:
Truthy(sql) == sql # EmptySql

\* one call of the diff engine on the pair at the loop index
DiffPair ==
    /\ pc = "diffing"
    /\ LET source == stack[pair]
           target == stack[PairTarget(pair)]
           sql == MigrationSql(content[source.db], content[target.db])
       IN /\ trace' = Append(trace, Log("diff", pair, "", sql # EmptySql))
          /\ IF mode = "diff"
             THEN result' = ReturnsSql(sql) /\ pc' = "unwind" /\ pair' = pair
             ELSE IF Truthy(sql)
             THEN result' = ReturnsPair(source.name, target.name)
                  /\ pc' = "unwind" /\ pair' = pair
             ELSE IF pair + 1 > Len(stack) - 1
             THEN result' = ReturnsNone /\ pc' = "unwind" /\ pair' = pair
             ELSE result' = result /\ pc' = "diffing" /\ pair' = pair + 1
    /\ UNCHANGED <<entry, argv, toml, args, connOpen, now, catalog, catalog0, content,
                   mode, backends, stack, cur, pending, fs, cfg, todo, applied, rows,
                   exc, exitcode, handles, ephemeral, tagged>>

\* the diff engine raises; the error propagates unchanged
DiffEngineRaises ==
    /\ pc = "diffing"
    /\ exc' = Exc("DiffEngineError", ToString(pair))
    /\ trace' = Append(trace, Log("differror", pair, "", FALSE))
    /\ pc' = "unwind"
    /\ UNCHANGED <<entry, argv, toml, args, connOpen, now, catalog, catalog0, content,
                   mode, backends, stack, cur, pending, fs, cfg, todo, applied, pair,
                   rows, result, exitcode, handles, ephemeral, tagged>>

\* the managers are exited in the order they were entered
Outermost(st) == 1

\* the manager the unwinding exits next: the one entered last
Innermost(st) == Len(st)

Without(st, i) == [j \in 1..(Len(st) - 1) |-> IF j < i THEN st[j] ELSE st[j + 1]]

\* the DROP follows the yield without try/finally: a raising body skips it
DropsOnNormalExitOnly(excIn) == excIn = NoExc

\* createdb's finally: the DROP is issued whatever the body did
ScopeExitDrops(excIn) == TRUE

\* the database is dropped while its engine is still open
DropThenDispose(f, ok, excIn, excOut) ==
    <<Ev("DROP", f.idx, f.db, ok, excIn, excOut), Log("dispose", f.idx, f.db, f.yielded)>>

\* createdb's exit: the with block of createengine ends (engine.dispose() in
\* its finally), then createdb's own finally executes DROP DATABASE
ExitEvents(f, ok, excIn, excOut) ==
    <<Log("dispose", f.idx, f.db, f.yielded), Ev("DROP", f.idx, f.db, ok, excIn, excOut)>>

\* one manager exits: createengine's finally disposes the engine, createdb's
\* finally issues DROP DATABASE, which the server executes
Release ==
    /\ pc = "unwind"
    /\ stack # <<>>
    /\ LET i == Innermost(stack)
           f == stack[i]
       IN /\ stack' = Without(stack, i)
          /\ IF f.eph /\ ScopeExitDrops(exc)
             THEN /\ catalog' = [catalog EXCEPT ![f.db] = Absent]
                  /\ content' = [content EXCEPT ![f.db] = {}]
                  /\ ephemeral' = ephemeral \ {f.db}
                  /\ tagged' = tagged \ {f.db}
                  /\ trace' = trace \o ExitEvents(f, TRUE, exc, exc)
             ELSE /\ trace' = Append(trace, Log("dispose", f.idx, f.db, f.yielded))
                  /\ UNCHANGED <<catalog, content, ephemeral, tagged>>
    /\ UNCHANGED <<entry, argv, toml, args, pc, connOpen, now, catalog0, mode, backends,
                   cur, pending, fs, cfg, todo, applied, pair, rows, exc, result,
                   exitcode, handles>>

\* one createdb manager exits and the server fails its DROP DATABASE: the
\* statement's error leaves the finally block
ReleaseDropFails ==
    /\ pc = "unwind"
    /\ stack # <<>>
    /\ LET i == Innermost(stack)
           f == stack[i]
       IN /\ f.eph
          /\ stack' = Without(stack, i)
          /\ exc' = Exc("DropError", f.db)
          /\ trace' = trace \o ExitEvents(f, FALSE, exc, Exc("DropError", f.db))
    /\ UNCHANGED <<entry, argv, toml, args, pc, connOpen, now, catalog, catalog0,
                   content, mode, backends, cur, pending, fs, cfg, todo, applied, pair,
                   rows, result, exitcode, handles, ephemeral, tagged>>

\* cmd_diff after Tusker.diff: print the SQL, or report ExecuteSqlError and
\* exit 1; any other exception ends the process with a traceback
CmdDiffExit ==
    /\ pc = "unwind" /\ stack = <<>> /\ mode = "diff"
    /\ exitcode' = IF exc # NoExc THEN 1 ELSE 0
    /\ pc' = "done"
    /\ UNCHANGED <<entry, argv, toml, args, connOpen, now, catalog, catalog0, content,
                   mode, backends, stack, cur, pending, fs, cfg, todo, applied, pair,
                   rows, exc, result, trace, handles, ephemeral, tagged>>

\* a differing pair is reported and the process exits 0
CheckExitsZero(e, res) == IF e # NoExc THEN 1 ELSE 0

\* cmd_check: the process exit code after Tusker.check raised e or returned res
CheckExitCode(e, res) ==
    IF e # NoExc THEN 1
    ELSE IF res.kind = "pair" THEN 1 ELSE 0

\* cmd_check after Tusker.check
CmdCheckExit ==
    /\ pc = "unwind" /\ stack = <<>> /\ mode = "check"
    /\ exitcode' = CheckExitCode(exc, result)
    /\ pc' = "done"
    /\ UNCHANGED <<entry, argv, toml, args, connOpen, now, catalog, catalog0, content,
                   mode, backends, stack, cur, pending, fs, cfg, todo, applied, pair,
                   rows, exc, result, trace, handles, ephemeral, tagged>>

\* ------------------------------------------------------------ Tusker.clean
\* WHERE dsc.description LIKE 'CREATED BY TUSKER%'
SelectedByPrefix(descr) == descr \in {TUSKER_COMMENT, SimilarComment}

\* WHERE dsc.description = %s
Selected(descr) == descr = TUSKER_COMMENT

\* clean: the SELECT and fetchall
CleanSelect ==
    /\ pc = "select"
    /\ rows' = {d \in DbNames : Selected(catalog[d])}
    /\ pc' = "drop"
    /\ UNCHANGED <<entry, argv, toml, args, connOpen, now, catalog, catalog0, content,
                   mode, backends, stack, cur, pending, fs, cfg, todo, applied, pair,
                   exc, result, exitcode, trace, handles, ephemeral, tagged>>

\* clean: DROP DATABASE for one fetched row
CleanDrop ==
    /\ pc = "drop"
    /\ \E d \in rows :
         /\ rows' = rows \ {d}
         /\ catalog' = [catalog EXCEPT ![d] = Absent]
         /\ content' = [content EXCEPT ![d] = {}]
         /\ ephemeral' = ephemeral \ {d}
         /\ tagged' = tagged \ {d}
         /\ trace' = Append(trace, Log("DROP", 0, d, TRUE))
    /\ UNCHANGED <<entry, argv, toml, args, pc, connOpen, now, catalog0, mode, backends,
                   stack, cur, pending, fs, cfg, todo, applied, pair, exc, result,
                   exitcode, handles>>

\* clean: the server fails a DROP DATABASE; the error ends the loop
CleanDropFails ==
    /\ pc = "drop"
    /\ \E d \in rows :
         /\ exc' = Exc("DropError", d)
         /\ trace' = Append(trace, Log("DROP", 0, d, FALSE))
    /\ rows' = {}
    /\ exitcode' = 1
    /\ pc' = "done"
    /\ UNCHANGED <<entry, argv, toml, args, connOpen, now, catalog, catalog0, content,
                   mode, backends, stack, cur, pending, fs, cfg, todo, applied, pair,
                   result, handles, ephemeral, tagged>>

\* clean and cmd_clean return
CleanDone ==
    /\ pc = "drop"
    /\ rows = {}
    /\ exitcode' = 0
    /\ pc' = "done"
    /\ UNCHANGED <<entry, argv, toml, args, connOpen, now, catalog, catalog0, content,
                   mode, backends, stack, cur, pending, fs, cfg, todo, applied, pair,
                   rows, exc, result, trace, handles, ephemeral, tagged>>

\* -------------------------------------------------------- specifications
\* the server executes every administrative statement it accepts
Next ==
    \/ Main \/ CmdDiff \/ CmdCheck \/ CmdClean
    \/ CreateDb \/ Comment \/ ExecFile \/ MgrYield \/ MgrDatabase
    \/ DiffPair \/ DiffEngineRaises \/ Release
    \/ CmdDiffExit \/ CmdCheckExit
    \/ CleanSelect \/ CleanDrop \/ CleanDone

Spec == Init /\ [][Next]_vars

\* the server may also fail COMMENT ON DATABASE and DROP DATABASE
NextF == Next \/ CommentFails \/ ReleaseDropFails \/ CleanDropFails

SpecF == Init /\ [][NextF]_vars


\* ------------------------------------------------------------ properties
Events == 1..Len(trace)

\* the Tusker method has returned or raised to its caller
Returned == pc = "done" \/ (pc = "unwind" /\ stack = <<>>)

\* the indices of the events of one kind, as the sequence of their idx fields
IdxOf(kind) ==
    LET sel == SelectSeq(trace, LAMBDA e : e.ev = kind)
    IN [n \in 1..Len(sel) |-> sel[n].idx]

\* the backends whose handle was yielded and whose manager has exited
ReleasedIdx ==
    LET sel == SelectSeq(trace, LAMBDA e : e.ev = "dispose" /\ e.ok)
    IN [n \in 1..Len(sel) |-> sel[n].idx]

Reverse(seq) == [n \in 1..Len(seq) |-> seq[Len(seq) + 1 - n]]

CountBefore(kind, p) == Cardinality({q \in 1..(p - 1) : trace[q].ev = kind})

\* C1: once a createdb scope has exited, whatever its body did, the database
\* it created is absent from the catalog.
C1_DroppedAfterScope ==
    \A p \in Events :
        (trace[p].ev = "dispose" /\ trace[p].db \in EphemeralNames)
            => catalog[trace[p].db] = Absent

\* a createdb scope whose body raised has exited, and so has one whose body
\* had yielded its handle
C1_Witness ==
    /\ \E p \in Events : trace[p].ev = "DROP" /\ trace[p].idx > 0 /\ trace[p].excIn # NoExc
    /\ \E p \in Events : trace[p].ev = "dispose" /\ trace[p].ok
                         /\ trace[p].db \in EphemeralNames

\* C2: when a SQL file failed in diff or check, the method leaves with
\* ExecuteSqlError and every database the command created has been dropped.
C2_CleanupAfterSqlError ==
    (Returned /\ mode \in {"diff", "check"}
       /\ \E p \in Events : trace[p].ev = "sqlerror")
    => /\ exc[1] = "ExecuteSqlError"
       /\ \A p \in Events :
            (trace[p].ev = "CREATE" /\ trace[p].ok) => catalog[trace[p].db] = Absent

\* a file of the second backend failed after the first backend was open
C2_Witness ==
    /\ Returned
    /\ \E p \in Events : trace[p].ev = "sqlerror" /\ trace[p].idx = 2
    /\ \E p \in Events : trace[p].ev = "CREATE" /\ trace[p].ok /\ trace[p].idx = 1

\* the adjacent pairs of the yielded handles whose diff is non-empty
Differing == {i \in 1..(Len(handles) - 1) : MigrationSql(handles[i], handles[i + 1]) # EmptySql}

Least(S) == CHOOSE i \in S : \A j \in S : i <= j

\* C3: check returns None exactly when no adjacent pair differs, and else
\* the names of the first adjacent pair that differs.
C3_FirstDifferingPair ==
    (Returned /\ mode = "check" /\ exc = NoExc)
    => /\ Len(handles) = Len(backends)
       /\ IF Differing = {} THEN result = ReturnsNone
          ELSE result = ReturnsPair(backends[Least(Differing)], backends[Least(Differing) + 1])

\* three backends, the first pair identical, the second differing, while the
\* first and third differ as well
C3_Witness ==
    /\ Returned /\ mode = "check" /\ exc = NoExc
    /\ Len(handles) = 3
    /\ Differing = {2}
    /\ result = ReturnsPair(backends[2], backends[3])

\* C4: in check the backends are materialized one at a time in list order, all
\* before the first diff-engine call; the calls go through the adjacent pairs
\* in increasing order and stop after the first non-empty diff.
IsDiffCall(e) == e.ev \in {"diff", "differror"}

C4_OrderAndShortCircuit ==
    mode = "check" =>
      /\ \A n \in 1..Len(IdxOf("enter")) : IdxOf("enter")[n] = n
      /\ \A p \in Events :
            trace[p].ev = "CREATE" => CountBefore("enter", p) = trace[p].idx - 1
      /\ \A p \in Events :
            IsDiffCall(trace[p]) => CountBefore("enter", p) = Len(backends)
      /\ LET calls == SelectSeq(trace, IsDiffCall)
         IN \A n \in 1..Len(calls) :
              /\ calls[n].idx = n
              /\ (calls[n].ev = "diff" /\ calls[n].ok) => n = Len(calls)

\* three backends were materialized, the first pair was identical and the
\* second call found a difference
C4_Witness ==
    /\ mode = "check" /\ Returned
    /\ Len(IdxOf("enter")) = 3
    /\ \E p \in Events : trace[p].ev = "diff" /\ trace[p].idx = 2 /\ trace[p].ok

\* C5: on every exit from check the backends that were opened have all been
\* released, in the reverse of the order in which they were opened.
C5_ReleasedInReverse ==
    (Returned /\ mode = "check") => ReleasedIdx = Reverse(IdxOf("enter"))

\* check left on a diff-engine error with three backends open
C5_Witness ==
    /\ Returned /\ mode = "check"
    /\ exc[1] = "DiffEngineError"
    /\ ReleasedIdx = <<3, 2, 1>>

\* C6: once main() has parsed a diff whose source and target are identical, the
\* administrative connection is never opened and no CREATE DATABASE is issued
\* (the command is rejected as a usage error).
C6_IdenticalRejected ==
    (entry = "main" /\ args.command = "diff" /\ args.source = args.target)
    => /\ ~connOpen
       /\ \A p \in Events : trace[p].ev # "CREATE"

\* C7: clean() drops only databases whose description is the marker; every
\* other database stays in the catalog as it was.
C7_DropsOnlyMarked ==
    mode = "clean" =>
      /\ \A p \in Events : trace[p].ev = "DROP" => catalog0[trace[p].db] = TUSKER_COMMENT
      /\ \A d \in DbNames : catalog0[d] # TUSKER_COMMENT => catalog[d] = catalog0[d]

\* clean() has dropped a marked database next to one with a similar description
C7_Witness ==
    /\ mode = "clean" /\ pc = "done"
    /\ catalog0[OtherName] = SimilarComment /\ catalog[OtherName] = SimilarComment
    /\ \E p \in Events : trace[p].ev = "DROP" /\ trace[p].ok

\* C8: the clean command run through main() reaches Tusker.clean, and when it
\* finishes every database that carried the marker at the start is dropped.
C8_CleanThroughMain ==
    (entry = "main" /\ args.command = "clean" /\ pc = "done")
    => /\ mode = "clean"
       /\ \A d \in DbNames : catalog0[d] = TUSKER_COMMENT => catalog[d] = Absent

\* C9: when the body of a createdb scope raised and the DROP DATABASE on exit
\* fails too, the error leaving the scope is the body's error.
C9_BodyErrorSurvivesDropFailure ==
    \A p \in Events :
        (trace[p].ev = "DROP" /\ trace[p].idx > 0 /\ ~trace[p].ok /\ trace[p].excIn # NoExc)
            => trace[p].excOut = trace[p].excIn

\* C10 as stated: in every state a database carries the marker if and only if
\* it is a live database created by createdb.
C10_MarkerIffLive ==
    \A d \in DbNames : catalog[d] = TUSKER_COMMENT <=> d \in ephemeral

\* C10: a database carries the marker if and only if it is a live database
\* created by createdb whose COMMENT ON DATABASE has succeeded.
C10_MarkerIffTagged ==
    \A d \in DbNames : catalog[d] = TUSKER_COMMENT <=> (d \in ephemeral /\ d \in tagged)

\* this run created and tagged a database that is still live
C10_Witness ==
    \E p \in Events :
        /\ trace[p].ev = "COMMENT" /\ trace[p].ok
        /\ trace[p].db \in ephemeral
        /\ catalog[trace[p].db] = TUSKER_COMMENT


\* C11: two createdb acquisitions whose scopes overlap get distinct names, so
\* no CREATE DATABASE fails on a name that an open scope of this run created.
C11_NoNameCollision ==
    \A p \in Events :
        (trace[p].ev = "CREATE" /\ ~trace[p].ok)
            => ~\E q \in 1..(p - 1) :
                   trace[q].ev = "CREATE" /\ trace[q].ok /\ trace[q].db = trace[p].db

\* C12: loading a configuration whose [migrations] table sets both directory
\* and filename raises ConfigError, and the administrative connection is not opened.
C12_BothSetIsConfigError ==
    [][(pc = "main" /\ ~ParseArgs(argv).error /\ toml.directory /\ toml.filename)
         => (pc' = "done" /\ exc'[1] = "ConfigError" /\ ~connOpen')]_vars

\* C13: check rejects, while parsing, a list of fewer than two names without
\* 'all' and every list with a name outside migrations, schema, database; the
\* administrative connection is not opened.
C13_BadListRejected ==
    [][(pc = "main" /\ argv.command = "check"
          /\ LET given == GivenBackends(argv)
             IN \/ (Len(given) < 2 /\ ~Contains(given, "all"))
                \/ \E i \in 1..Len(given) : given[i] \notin Choices \cup {"all"})
         => (pc' = "done" /\ exc'[1] = "UsageError" /\ ~connOpen')]_vars

\* C14: the database backend issues no CREATE DATABASE and no DROP DATABASE:
\* no such statement belongs to a database backend, the configured database
\* stays in the catalog as it was, and a run over database backends only
\* leaves the whole catalog as it was.
C14_DatabaseBackendLeavesCatalog ==
    mode \in {"diff", "check"} =>
      /\ \A p \in Events :
           trace[p].ev \in {"CREATE", "DROP"} => backends[trace[p].idx] # "database"
      /\ catalog[BaseName] = catalog0[BaseName]
      /\ (\A i \in 1..Len(backends) : backends[i] = "database") => catalog = catalog0

\* a check over the database backend alone has opened and released its engines
C14_Witness ==
    /\ pc = "done" /\ mode = "check"
    /\ \A i \in 1..Len(backends) : backends[i] = "database"
    /\ Cardinality({p \in Events : trace[p].ev = "dispose" /\ trace[p].db = BaseName}) >= 2

\* C17: the check command exits 0 exactly when Tusker.check returned None,
\* exits 1 when it returned a differing pair or when materialization raised
\* ExecuteSqlError, and by then every database the run created is dropped.
C17_CheckExitCode ==
    (pc = "done" /\ mode = "check") =>
      /\ exitcode = 0 <=> (exc = NoExc /\ result = ReturnsNone)
      /\ (exc = NoExc /\ result.kind = "pair") => exitcode = 1
      /\ exc[1] = "ExecuteSqlError" => exitcode = 1
      /\ (exc[1] = "ExecuteSqlError" \/ (exc = NoExc /\ result.kind \in {"None", "pair"}))
           => \A p \in Events :
                (trace[p].ev = "CREATE" /\ trace[p].ok) => catalog[trace[p].db] = Absent

\* a check that created two databases and found them differing has exited 1
C17_Witness ==
    /\ pc = "done" /\ mode = "check" /\ exitcode = 1
    /\ exc = NoExc /\ result.kind = "pair"
    /\ Cardinality({p \in Events : trace[p].ev = "DROP" /\ trace[p].ok}) = 2

\* C18: after createdb's CREATE DATABASE succeeded, a DROP DATABASE for the
\* same name is issued on every exit path of createdb.
C18_DropOnEveryExit ==
    Returned =>
      \A p \in Events :
        (trace[p].ev = "CREATE" /\ trace[p].ok)
            => \E q \in Events : q > p /\ trace[q].ev = "DROP" /\ trace[q].db = trace[p].db

\* C20: on every exit of a createdb scope the engine on the database is
\* disposed immediately before DROP DATABASE is issued for it, and it is not
\* used afterwards.
C20_DisposeBeforeDrop ==
    \A p \in Events :
        (trace[p].ev = "DROP" /\ trace[p].idx > 0)
            => /\ p > 1
               /\ trace[p - 1].ev = "dispose"
               /\ trace[p - 1].db = trace[p].db
               /\ trace[p - 1].idx = trace[p].idx
               /\ \A q \in Events :
                    (q > p /\ trace[q].db = trace[p].db) => trace[q].ev \in {"CREATE", "COMMENT"}

\* both scopes of a run have exited, one after its body raised, and the DROP
\* of one of them failed
C20_Witness ==
    /\ Returned
    /\ \E p \in Events : trace[p].ev = "DROP" /\ trace[p].idx = 2 /\ ~trace[p].ok
    /\ \E p \in Events : trace[p].ev = "DROP" /\ trace[p].idx = 1 /\ trace[p].excIn # NoExc

\* the names of the files the open transaction has executed, in order
AppliedNames == [n \in 1..Len(applied) |-> applied[n].name]

\* the names in the directory that the pattern matches, whatever their order
MatchSet(p) == {fs[i].name : i \in {j \in 1..Len(fs) : Matches(p, fs[j].name)}}

\* the one sequence that lists the set in increasing order
Ascending(S) ==
    CHOOSE q \in [1..Cardinality(S) -> S] :
        \A i, j \in 1..Cardinality(S) : i < j => LexLess(q[i], q[j])

RECURSIVE InPatternOrder(_)
InPatternOrder(patterns) ==
    IF patterns = <<>> THEN <<>>
    ELSE Ascending(MatchSet(Head(patterns))) \o InPatternOrder(Tail(patterns))

\* C15: the resolved file sequence is the concatenation, in pattern order, of
\* each pattern's set of matches in increasing lexical order, whatever the
\* order in which the directory lists its files.
C15_SortedPerPattern ==
    pc = "files" =>
        AppliedNames \o todo = InPatternOrder(cfg[stack[Len(stack)].name])

\* two patterns over a directory that lists b before a: all files executed
C15_Witness ==
    /\ pc = "files" /\ todo = <<>>
    /\ Len(cfg[stack[Len(stack)].name]) = 2
    /\ Len(fs) = 2 /\ LexLess(fs[2].name, fs[1].name)
    /\ Len(applied) >= 3

\* C16: no file is executed twice during one materialization.
C16_AppliedOnce ==
    \A i, j \in 1..Len(applied) : applied[i].name = applied[j].name => i = j

\* C19: a script or migration backend yields its engine only when every
\* resolved file has been executed once, in resolved order, and the
\* transaction commits what they created; a file of whitespace sends no
\* statement; a failing file ends the transaction with ExecuteSqlError and
\* nothing committed, and its backend does not yield.
C19_YieldAfterAllFiles ==
    [][LET n == Len(stack) IN
       /\ (n > 0 /\ Len(stack') = n /\ ~stack[n].yielded /\ stack'[n].yielded)
            => /\ exc = NoExc
               /\ todo = <<>>
               /\ AppliedNames = GetFiles(cfg[stack[n].name], fs)
               /\ \A i, j \in 1..Len(applied) : applied[i].name = applied[j].name => i = j
               /\ \A i \in 1..Len(applied) :
                    applied[i].executed <=> Read(fs, applied[i].name) \notin {"", " \n"}
               /\ pending = UNION {Creates(Strip(Read(fs, applied[i].name))) :
                                      i \in 1..Len(applied)}
               /\ content'[stack[n].db] = pending
               /\ ~\E p \in Events : trace[p].ev = "sqlerror" /\ trace[p].idx = stack[n].idx
       /\ (pc = "files" /\ pc' = "unwind")
            => /\ exc'[1] = "ExecuteSqlError"
               /\ content' = content
               /\ pending' = {}
               /\ stack' = stack /\ ~stack[n].yielded
      ]_vars

====
